---- MODULE Spec2Model ----
(***************************************************************************)
(* Model of the `perm` crate: the two chunked permutation iterators        *)
(* (IntoChunks over hash maps, IntoOptimizedChunks over fixed arrays) and  *)
(* the Permutations front end that constructs them.                        *)
(*                                                                         *)
(* One behaviour takes an input vector and a chunk size, constructs one    *)
(* engine, pulls it with next() until it is exhausted, and may then run    *)
(* the other engine on the same input (as the crate's tests do).  The      *)
(* body of next() is modelled one iteration of its `while let` loop at a   *)
(* time, so that the frontier and the chunk under construction are         *)
(* visible in the middle of a pull.                                        *)
(***************************************************************************)
EXTENDS Integers, Sequences, FiniteSets, Bags, TLC

(***************************************************************************)
(* Bounds of the model.                                                    *)
(***************************************************************************)
\* short inputs: every vector over Values of length 0..MaxLen
MaxLen == 3
\* the distinct values short inputs are drawn from: 1..NumValues
NumValues == 3
\* chunk sizes 0..MaxSize are tried
MaxSize == 3
\* long inputs: vectors of one repeated value, of length
\* PERMUTATION_FIXED_LENGTH - 1 .. PERMUTATION_FIXED_LENGTH + LongExtra
LongExtra == 2
\* the short inputs of the fair specification have length 0..FairLen
FairLen == 2
\* the input texts of try_from have 0..ParseLen characters
ParseLen == 4
\* the short inputs of main have 0..MainLen values out of MainLen different ones
MainLen == 4
\* the short inputs of main make main spawn at most MainChunks writer threads
MainChunks == 2
\* the thread count of main is followed on inputs of 0..BudgetLen different values
BudgetLen == 7

(***************************************************************************)
(* Program constants.                                                      *)
(***************************************************************************)
\* into_optimized_chunks.rs:30
PERMUTATION_FIXED_LENGTH == 128

Values == 1..NumValues

\* type FixedArray = [usize; PERMUTATION_FIXED_LENGTH], indexed from 0
FixedIndex == 0..(PERMUTATION_FIXED_LENGTH - 1)

zeroed_fixed_array == [i \in FixedIndex |-> 0]

VARIABLES
    values,            \* Permutations.values: the input vector
    size,              \* the chunk size handed to into_chunks / into_optimized_chunks
    engine,            \* which iterator exists: "none", "general", "compact"
    construction,      \* outcome of the constructor call: "none", "Ok", "panic"
    pc,                \* "start", "idle" (between calls of next), "loop" (inside next), "panicked"
    job_queue,         \* IntoChunks.job_queue / IntoOptimizedChunks.job_queue (a stack)
    hash_order,        \* iteration order of the root job's HashMap (general engine)
    index_to_value,    \* IntoOptimizedChunks.index_to_value
    permutation_size,  \* IntoOptimizedChunks.permutation_size
    chunk,             \* the local `chunk` of the running next(): its permutations
    yielded,           \* the chunks returned as Some(chunk) so far, in order
    returned,          \* what the last finished next() returned: "nothing", "Some", "None"
    prior,             \* the engine drained earlier on this input and what it produced
    text,              \* the &str handed to Permutations::try_from, one string per character
    parsed,            \* the Result of Permutations::try_from(text)
    main_pc,           \* where main is: "none", "main", "collect", "join", "done", "panicked"
    handles,           \* one entry per spawned writer thread: its chunk and its state
    joined,            \* how many handles main has joined
    stdout,            \* the bag of the texts written to the standard output
    to_produce,        \* thread count of main: the permutations the iterator has still to yield
    threads            \* thread count of main: the writer threads spawned so far

vars == <<values, size, engine, construction, pc, job_queue, hash_order,
          index_to_value, permutation_size, chunk, yielded, returned, prior,
          text, parsed, main_pc, handles, joined, stdout, to_produce, threads>>

(***************************************************************************)
(* Helpers on sequences.                                                   *)
(***************************************************************************)
Range(s) == {s[i] : i \in DOMAIN s}

Occurrences(s, x) == Cardinality({i \in DOMAIN s : s[i] = x})

\* all the enumerations of the finite set S without repetition
Orderings(S) ==
    {o \in [1..Cardinality(S) -> S] : \A i, j \in 1..Cardinality(S) : i # j => o[i] # o[j]}

\* the permutations of all the chunks of a sequence of chunks, in order
RECURSIVE Flatten(_)
Flatten(chunks) ==
    IF chunks = <<>> THEN <<>> ELSE Head(chunks) \o Flatten(Tail(chunks))

NoRun == [engine |-> "none", produced |-> {}, chunks |-> 0]

(***************************************************************************)
(* into_chunks.rs: the general engine.                                     *)
(***************************************************************************)
\* values_with_frequency: every value of the input is a key, and its entry has
\* been incremented once per occurrence
values_with_frequency(vs) == [v \in Range(vs) |-> Occurrences(vs, v)]

\* Job::new: keeps the entries with frequency > 0, empty permutation
Job_new(frequencies, permutation_length) ==
    [values_with_positive_frequency |->
        [v \in {w \in DOMAIN frequencies : frequencies[w] > 0} |-> frequencies[v]],
     permutation |-> <<>>,
     permutation_length |-> permutation_length]

\* decrease_or_remove_positive_frequency with the entry removed whatever its count
decrease_or_remove_always_removes(map, value) ==
    IF value \in DOMAIN map
    THEN [v \in DOMAIN map \ {value} |-> map[v]]
    ELSE map

\* decrease_or_remove_positive_frequency that decrements an Occupied entry and
\* never removes it
decrease_or_remove_never_removes(map, value) ==
    IF value \in DOMAIN map
    THEN [map EXCEPT ![value] = @ - 1]
    ELSE map

\* decrease_or_remove_positive_frequency: Occupied with 1 is removed, Occupied
\* otherwise is decremented, Vacant is left alone
decrease_or_remove_positive_frequency(map, value) ==
    IF value \in DOMAIN map
    THEN IF map[value] = 1
         THEN [v \in DOMAIN map \ {value} |-> map[v]]
         ELSE [map EXCEPT ![value] = @ - 1]
    ELSE map

\* Job::with_new_value that appends the value and leaves the frequencies alone
Job_with_new_value_keeps_frequency(job, value) ==
    [values_with_positive_frequency |-> job.values_with_positive_frequency,
     permutation |-> Append(job.permutation, value),
     permutation_length |-> job.permutation_length]

\* Job::with_new_value
Job_with_new_value(job, value) ==
    [values_with_positive_frequency |->
        decrease_or_remove_positive_frequency(job.values_with_positive_frequency, value),
     permutation |-> Append(job.permutation, value),
     permutation_length |-> job.permutation_length]

\* Job::compute_next_jobs leaving its loop after the first key
Job_compute_next_jobs_first_only(job, order) ==
    LET keys == SelectSeq(order, LAMBDA v : v \in DOMAIN job.values_with_positive_frequency)
    IN  [i \in 1..(IF Len(keys) > 0 THEN 1 ELSE 0) |-> Job_with_new_value(job, keys[i])]

\* Job::compute_next_jobs: one child per key of the map, in the map's iteration
\* order.  Every job's map is a clone of its parent's with at most one entry
\* erased, so it iterates in the root map's order restricted to its own keys.
Job_compute_next_jobs(job, order) ==
    LET keys == SelectSeq(order, LAMBDA v : v \in DOMAIN job.values_with_positive_frequency)
    IN  [i \in 1..Len(keys) |-> Job_with_new_value(job, keys[i])]

\* Job::is_ready answering true one value early
Job_is_ready_one_early(job) == Len(job.permutation) + 1 >= job.permutation_length

\* Job::is_ready
Job_is_ready(job) == Len(job.permutation) = job.permutation_length

\* Job::permutation
Job_permutation(job) == job.permutation

\* Chunk::is_full with > for ==
Chunk_is_full_greater(permutations, chunk_size) == Len(permutations) > chunk_size

\* Chunk::is_full answering true for every chunk that is not empty
Chunk_is_full_nonempty(permutations, chunk_size) == Len(permutations) >= 1

\* Chunk::is_full / OptimizedChunk::is_full
Chunk_is_full(permutations, chunk_size) == Len(permutations) = chunk_size

\* Chunk::is_empty answering false for every chunk: the end of next() then
\* returns Some(chunk) whatever the chunk holds
Chunk_is_empty_never(permutations) == Len(permutations) < 0

\* Chunk::is_empty / OptimizedChunk::is_empty
Chunk_is_empty(permutations) == permutations = <<>>

(***************************************************************************)
(* into_optimized_chunks.rs: the compact engine.                           *)
(***************************************************************************)
\* the position of the first occurrence of value v in vs
FirstOccurrence(vs, v) == CHOOSE i \in DOMAIN vs : vs[i] = v /\ \A j \in 1..(i - 1) : vs[j] # v

\* the id compress_values gives value v: the number of distinct values first
\* seen before it (i_th_distinct_value at the time v is first met)
IdOf(vs, v) ==
    Cardinality({w \in Range(vs) : FirstOccurrence(vs, w) < FirstOccurrence(vs, v)})

\* compress_values with a fresh id for every element, never looking the value up
compress_values_no_lookup(vs) ==
    [compressed_values |-> [i \in FixedIndex |-> IF i < Len(vs) THEN 1 ELSE 0],
     index_to_value |-> [i \in 0..(Len(vs) - 1) |-> vs[i + 1]]]

\* compress_values: the pair (compressed_values, index_to_value).  Ids are given
\* 0, 1, 2, .. in order of first occurrence; compressed_values[id] counts the
\* occurrences of the value with that id and is 0 at every other index
compress_values(vs) ==
    LET table == [id \in 0..(Cardinality(Range(vs)) - 1) |->
                     CHOOSE v \in Range(vs) : IdOf(vs, v) = id]
    IN  [compressed_values |->
            [i \in FixedIndex |-> IF i \in DOMAIN table THEN Occurrences(vs, table[i]) ELSE 0],
         index_to_value |-> table]

\* OptimizedJob::new
OptimizedJob_new(compressed_values) ==
    [compressed_values |-> compressed_values,
     compressed_permutation |-> zeroed_fixed_array,
     permutation_length |-> 0]

\* OptimizedJob::with_new_value that forgets `permutation_length + 1`
OptimizedJob_with_new_value_no_bump(job, value) ==
    [compressed_values |-> [job.compressed_values EXCEPT ![value] = @ - 1],
     compressed_permutation |->
        [job.compressed_permutation EXCEPT ![job.permutation_length] = value],
     permutation_length |-> job.permutation_length]

\* OptimizedJob::with_new_value
OptimizedJob_with_new_value(job, value) ==
    [compressed_values |-> [job.compressed_values EXCEPT ![value] = @ - 1],
     compressed_permutation |->
        [job.compressed_permutation EXCEPT ![job.permutation_length] = value],
     permutation_length |-> job.permutation_length + 1]

\* the ids of a count array whose count is > least, in increasing order of id
candidate_ids(counts, least) ==
    LET ids == {idx \in FixedIndex : counts[idx] > least}
    IN  [k \in 1..Cardinality(ids) |->
            CHOOSE idx \in ids : Cardinality({j \in ids : j < idx}) = k - 1]

\* OptimizedJob::compute_next_jobs with the test `*freq > 1`
OptimizedJob_compute_next_jobs_gt_one(job) ==
    LET ids == candidate_ids(job.compressed_values, 1)
    IN  [i \in 1..Len(ids) |-> OptimizedJob_with_new_value(job, ids[i])]

\* OptimizedJob::compute_next_jobs with the test `*freq >= 0`: every slot is a
\* candidate, also the empty ones
OptimizedJob_compute_next_jobs_any_count(job) ==
    LET ids == candidate_ids(job.compressed_values, -1)
    IN  [i \in 1..Len(ids) |-> OptimizedJob_with_new_value(job, ids[i])]

\* OptimizedJob::compute_next_jobs collecting the children in descending id order
OptimizedJob_compute_next_jobs_descending(job) ==
    LET ids == candidate_ids(job.compressed_values, 0)
    IN  [i \in 1..Len(ids) |-> OptimizedJob_with_new_value(job, ids[Len(ids) + 1 - i])]

\* OptimizedJob::compute_next_jobs: one child per id with *freq > 0, ids ascending
OptimizedJob_compute_next_jobs(job) ==
    LET ids == candidate_ids(job.compressed_values, 0)
    IN  [i \in 1..Len(ids) |-> OptimizedJob_with_new_value(job, ids[i])]

\* OptimizedJob::is_ready
OptimizedJob_is_ready(job) == job.compressed_values = zeroed_fixed_array

\* OptimizedJob::permutation
OptimizedJob_permutation(job) == job.compressed_permutation

\* Display for OptimizedChunk, one permutation: the first permutation_size ids,
\* each looked up in index_to_value
Decode(permutation, table, n) == [i \in 1..n |-> table[permutation[i - 1]]]

(***************************************************************************)
(* Display.  A text is the sequence of the strings written: one string per *)
(* value (its to_string()), "," and the line break.                        *)
(***************************************************************************)
\* <T as ToString>::to_string on the values of the model
to_string(value) == ToString(value)

\* Display for Chunk, one permutation: the values before the last each followed
\* by ",", then writeln! of the last value
Chunk_fmt_permutation(permutation) ==
    LET last_permutation_index == Len(permutation) - 1
        permutation_without_last_value ==
            [i \in 1..(2 * last_permutation_index) |->
                IF i % 2 = 1 THEN to_string(permutation[(i + 1) \div 2]) ELSE ","]
    IN  permutation_without_last_value
            \o <<to_string(permutation[last_permutation_index + 1]), "\n">>

\* Display for Chunk: every permutation in insertion order
Chunk_fmt(permutations) ==
    Flatten([p \in 1..Len(permutations) |-> Chunk_fmt_permutation(permutations[p])])

\* Display for OptimizedChunk, one permutation, writing the ids themselves
OptimizedChunk_fmt_permutation_raw_ids(permutation, table, n) ==
    LET last_permutation_index == n - 1
        permutation_without_last_value ==
            [i \in 1..(2 * last_permutation_index) |->
                IF i % 2 = 1 THEN to_string(permutation[(i + 1) \div 2 - 1]) ELSE ","]
    IN  permutation_without_last_value
            \o <<to_string(permutation[last_permutation_index]), "\n">>

\* Display for OptimizedChunk, one permutation: the ids at 0..permutation_size-2
\* each looked up in index_to_value and followed by ",", then writeln! of the
\* value of the id at permutation_size-1
OptimizedChunk_fmt_permutation(permutation, table, n) ==
    LET last_permutation_index == n - 1
        permutation_without_last_value ==
            [i \in 1..(2 * last_permutation_index) |->
                IF i % 2 = 1 THEN to_string(table[permutation[(i + 1) \div 2 - 1]]) ELSE ","]
    IN  permutation_without_last_value
            \o <<to_string(table[permutation[last_permutation_index]]), "\n">>

\* Display for OptimizedChunk: every compressed permutation in insertion order
OptimizedChunk_fmt(permutations_compressed, table, n) ==
    Flatten([p \in 1..Len(permutations_compressed) |->
                OptimizedChunk_fmt_permutation(permutations_compressed[p], table, n)])

(***************************************************************************)
(* permutations.rs: the front end.                                         *)
(***************************************************************************)
\* can_be_optimized with < for <=
can_be_optimized_strict(vs) == Len(vs) < PERMUTATION_FIXED_LENGTH

\* can_be_optimized with the limit one too high
can_be_optimized_plus_one(vs) == Len(vs) <= PERMUTATION_FIXED_LENGTH + 1

\* Permutations::can_be_optimized
can_be_optimized(vs) == Len(vs) <= PERMUTATION_FIXED_LENGTH

(***************************************************************************)
(* permutations.rs: TryFrom<&str> for Permutations<&str>.  The texts of    *)
(* the model are written with one digit, a sign, the decimal point, the    *)
(* comma, two white space characters and one letter that no number holds.  *)
(***************************************************************************)
Digits == {"1"}

Signs == {"+"}

WhiteSpace == {" ", "\n"}

Characters == Digits \cup Signs \cup WhiteSpace \cup {".", ",", "c"}

NotParsed == [ok |-> FALSE, values |-> <<>>, message |-> <<>>]

\* str::split(','): the pieces between the commas, empty pieces included
RECURSIVE split(_)
split(t) ==
    IF \A i \in DOMAIN t : t[i] # ","
    THEN <<t>>
    ELSE LET comma == CHOOSE i \in DOMAIN t : t[i] = "," /\ \A j \in 1..(i - 1) : t[j] # ","
         IN  <<SubSeq(t, 1, comma - 1)>> \o split(SubSeq(t, comma + 1, Len(t)))

\* str::trim: without the leading and the trailing white space
trim(t) ==
    LET inked == {i \in DOMAIN t : t[i] \notin WhiteSpace}
    IN  IF inked = {} THEN <<>>
        ELSE SubSeq(t, CHOOSE i \in inked : \A j \in inked : i <= j,
                       CHOOSE i \in inked : \A j \in inked : i >= j)

\* str::parse::<f64>().is_ok() on the characters of the model: an optional sign,
\* then digits with at most one decimal point and at least one digit
parse_f64_is_ok(t) ==
    LET unsigned == IF t # <<>> /\ t[1] \in Signs THEN Tail(t) ELSE t
    IN  /\ \A i \in DOMAIN unsigned : unsigned[i] \in Digits \cup {"."}
        /\ Cardinality({i \in DOMAIN unsigned : unsigned[i] = "."}) <= 1
        /\ \E i \in DOMAIN unsigned : unsigned[i] \in Digits

\* format!(..) of the error: the token between two grave accents (written out as
\* a word here), then the fixed words
not_a_valid_number(number) ==
    <<"grave accent">> \o number \o <<"grave accent", " is not a valid number">>

\* the try_fold going on after an invalid token, so that the last one is reported
RECURSIVE try_fold_reports_last(_, _, _, _)
try_fold_reports_last(tokens, i, acc, failure) ==
    IF i > Len(tokens)
    THEN IF failure.ok THEN [ok |-> TRUE, values |-> acc, message |-> <<>>] ELSE failure
    ELSE IF parse_f64_is_ok(trim(tokens[i]))
         THEN try_fold_reports_last(tokens, i + 1, Append(acc, trim(tokens[i])), failure)
         ELSE try_fold_reports_last(tokens, i + 1, acc,
                  [ok |-> FALSE, values |-> <<>>, message |-> not_a_valid_number(tokens[i])])

\* try_fold over the tokens from the i-th on: a valid token is pushed trimmed, the
\* first invalid one ends the fold with the error naming it as it stands
RECURSIVE try_fold(_, _, _)
try_fold(tokens, i, acc) ==
    IF i > Len(tokens)
    THEN [ok |-> TRUE, values |-> acc, message |-> <<>>]
    ELSE IF parse_f64_is_ok(trim(tokens[i]))
         THEN try_fold(tokens, i + 1, Append(acc, trim(tokens[i])))
         ELSE [ok |-> FALSE, values |-> <<>>, message |-> not_a_valid_number(tokens[i])]

\* Permutations::try_from reporting the last invalid token
Permutations_try_from_reports_last(t) ==
    try_fold_reports_last(split(t), 1, <<>>, [ok |-> TRUE])

\* Permutations::try_from
Permutations_try_from(t) == try_fold(split(t), 1, <<>>)

(***************************************************************************)
(* The inputs.                                                             *)
(***************************************************************************)
ShortInputs == UNION {[1..n -> Values] : n \in 0..MaxLen}

\* [0; n].to_vec() around the capacity of the compact engine
LongInputs ==
    {[i \in 1..n |-> 0] :
        n \in (PERMUTATION_FIXED_LENGTH - 1)..(PERMUTATION_FIXED_LENGTH + LongExtra)}

Inputs == ShortInputs \cup LongInputs

Init ==
    /\ values \in Inputs
    /\ size \in 0..MaxSize
    /\ engine = "none"
    /\ construction = "none"
    /\ pc = "start"
    /\ job_queue = <<>>
    /\ hash_order = <<>>
    /\ index_to_value = <<>>
    /\ permutation_size = 0
    /\ chunk = <<>>
    /\ yielded = <<>>
    /\ returned = "nothing"
    /\ prior = NoRun
    /\ text = <<>>
    /\ parsed = NotParsed
    /\ main_pc = "none"
    /\ handles = <<>>
    /\ joined = 0
    /\ stdout = EmptyBag
    /\ to_produce = 0
    /\ threads = 0

\* panic!(..) in a constructor: no iterator is returned, the caller unwinds
Panic(requested) ==
    /\ engine' = requested
    /\ construction' = "panic"
    /\ pc' = "panicked"
    /\ UNCHANGED <<values, job_queue, hash_order, index_to_value,
                   permutation_size, chunk, yielded, returned, prior>>

\* IntoChunks::new: the queue holds the root job; the root map's iteration
\* order is whatever its hasher gives
IntoChunks_new ==
    /\ engine' = "general"
    /\ construction' = "Ok"
    /\ pc' = "idle"
    /\ job_queue' = <<Job_new(values_with_frequency(values), Len(values))>>
    /\ hash_order' \in Orderings(DOMAIN values_with_frequency(values))
    /\ UNCHANGED <<values, index_to_value, permutation_size, chunk, yielded,
                   returned, prior>>

\* IntoOptimizedChunks::new
IntoOptimizedChunks_new ==
    /\ engine' = "compact"
    /\ construction' = "Ok"
    /\ pc' = "idle"
    /\ job_queue' = <<OptimizedJob_new(compress_values(values).compressed_values)>>
    /\ index_to_value' = compress_values(values).index_to_value
    /\ permutation_size' = Len(values)
    /\ UNCHANGED <<values, hash_order, chunk, yielded, returned, prior>>

\* the body of Permutations::into_chunks(self, size)
Permutations_into_chunks(chunk_size) ==
    IF chunk_size = 0 THEN Panic("general") ELSE IntoChunks_new

\* the body of Permutations::into_optimized_chunks(self, size)
Permutations_into_optimized_chunks(chunk_size) ==
    IF chunk_size = 0
    THEN Panic("compact")
    ELSE IF ~can_be_optimized(values)
         THEN Panic("compact")
         ELSE IntoOptimizedChunks_new

\* Permutations::into_chunks without the size check
into_chunks_unchecked ==
    /\ pc = "start"
    /\ prior.engine # "general"
    /\ IntoChunks_new
    /\ UNCHANGED size
    /\ UNCHANGED <<text, parsed, main_pc, handles, joined, stdout, to_produce, threads>>

\* Permutations::into_chunks
into_chunks ==
    /\ pc = "start"
    /\ prior.engine # "general"
    /\ Permutations_into_chunks(size)
    /\ UNCHANGED size
    /\ UNCHANGED <<text, parsed, main_pc, handles, joined, stdout, to_produce, threads>>

\* Permutations::into_optimized_chunks
into_optimized_chunks ==
    /\ pc = "start"
    /\ prior.engine # "compact"
    /\ Permutations_into_optimized_chunks(size)
    /\ UNCHANGED size
    /\ UNCHANGED <<text, parsed, main_pc, handles, joined, stdout, to_produce, threads>>

(***************************************************************************)
(* Iterator::next for IntoChunks.                                          *)
(***************************************************************************)
\* entry of next(): let mut chunk = Chunk::new(self.size)
IntoChunks_next ==
    /\ pc = "idle"
    /\ engine = "general"
    /\ pc' = "loop"
    /\ chunk' = <<>>
    /\ UNCHANGED <<values, size, engine, construction, job_queue, hash_order,
                   index_to_value, permutation_size, yielded, returned, prior>>
    /\ UNCHANGED <<text, parsed, main_pc, handles, joined, stdout, to_produce, threads>>

\* return Some(chunk) out of next()
ReturnSome(full_chunk) ==
    /\ yielded' = Append(yielded, full_chunk)
    /\ returned' = "Some"
    /\ chunk' = <<>>
    /\ pc' = "idle"

\* one iteration of `while let Some(job) = self.job_queue.pop()`, where a job
\* without children is left on the queue
IntoChunks_next_loop_keeps_childless ==
    /\ pc = "loop"
    /\ engine = "general"
    /\ job_queue # <<>>
    /\ LET job == job_queue[Len(job_queue)]
           popped == SubSeq(job_queue, 1, Len(job_queue) - 1)
           next_jobs == Job_compute_next_jobs(job, hash_order)
       IN  IF next_jobs # <<>>
           THEN IF Job_is_ready(Head(next_jobs))
                THEN LET extended ==
                            chunk \o [i \in 1..Len(next_jobs) |-> Job_permutation(next_jobs[i])]
                     IN  /\ job_queue' = popped
                         /\ IF Chunk_is_full(extended, size)
                            THEN ReturnSome(extended)
                            ELSE /\ chunk' = extended
                                 /\ UNCHANGED <<pc, yielded, returned>>
                ELSE /\ job_queue' = popped \o next_jobs
                     /\ UNCHANGED <<pc, chunk, yielded, returned>>
           ELSE /\ job_queue' = job_queue
                /\ UNCHANGED <<pc, chunk, yielded, returned>>
    /\ UNCHANGED <<values, size, engine, construction, hash_order, index_to_value,
                   permutation_size, prior>>
    /\ UNCHANGED <<text, parsed, main_pc, handles, joined, stdout, to_produce, threads>>

\* one iteration of `while let Some(job) = self.job_queue.pop()`
IntoChunks_next_loop ==
    /\ pc = "loop"
    /\ engine = "general"
    /\ job_queue # <<>>
    /\ LET job == job_queue[Len(job_queue)]
           popped == SubSeq(job_queue, 1, Len(job_queue) - 1)
           next_jobs == Job_compute_next_jobs(job, hash_order)
       IN  IF next_jobs # <<>>
           THEN IF Job_is_ready(Head(next_jobs))
                THEN LET extended ==
                            chunk \o [i \in 1..Len(next_jobs) |-> Job_permutation(next_jobs[i])]
                     IN  /\ job_queue' = popped
                         /\ IF Chunk_is_full(extended, size)
                            THEN ReturnSome(extended)
                            ELSE /\ chunk' = extended
                                 /\ UNCHANGED <<pc, yielded, returned>>
                ELSE /\ job_queue' = popped \o next_jobs
                     /\ UNCHANGED <<pc, chunk, yielded, returned>>
           ELSE /\ job_queue' = popped
                /\ UNCHANGED <<pc, chunk, yielded, returned>>
    /\ UNCHANGED <<values, size, engine, construction, hash_order, index_to_value,
                   permutation_size, prior>>
    /\ UNCHANGED <<text, parsed, main_pc, handles, joined, stdout, to_produce, threads>>

\* the end of next() without the is_empty test: Some(chunk) always
IntoChunks_next_end_no_empty_check ==
    /\ pc = "loop"
    /\ engine = "general"
    /\ job_queue = <<>>
    /\ ReturnSome(chunk)
    /\ UNCHANGED <<values, size, engine, construction, job_queue, hash_order,
                   index_to_value, permutation_size, prior>>
    /\ UNCHANGED <<text, parsed, main_pc, handles, joined, stdout, to_produce, threads>>

\* the loop is left with the queue empty: None for an empty chunk, else Some(chunk)
IntoChunks_next_end ==
    /\ pc = "loop"
    /\ engine = "general"
    /\ job_queue = <<>>
    /\ IF Chunk_is_empty(chunk)
       THEN /\ returned' = "None"
            /\ pc' = "idle"
            /\ UNCHANGED <<chunk, yielded>>
       ELSE ReturnSome(chunk)
    /\ UNCHANGED <<values, size, engine, construction, job_queue, hash_order,
                   index_to_value, permutation_size, prior>>
    /\ UNCHANGED <<text, parsed, main_pc, handles, joined, stdout, to_produce, threads>>

(***************************************************************************)
(* Iterator::next for IntoOptimizedChunks.                                 *)
(***************************************************************************)
\* entry of next() with a frontier that starts every pull empty, as if the jobs
\* lived within one pull
IntoOptimizedChunks_next_clears_queue ==
    /\ pc = "idle"
    /\ engine = "compact"
    /\ pc' = "loop"
    /\ chunk' = <<>>
    /\ job_queue' = <<>>
    /\ UNCHANGED <<values, size, engine, construction, hash_order,
                   index_to_value, permutation_size, yielded, returned, prior>>
    /\ UNCHANGED <<text, parsed, main_pc, handles, joined, stdout, to_produce, threads>>

\* entry of next(): let mut chunk = OptimizedChunk::new(..)
IntoOptimizedChunks_next ==
    /\ pc = "idle"
    /\ engine = "compact"
    /\ pc' = "loop"
    /\ chunk' = <<>>
    /\ UNCHANGED <<values, size, engine, construction, job_queue, hash_order,
                   index_to_value, permutation_size, yielded, returned, prior>>
    /\ UNCHANGED <<text, parsed, main_pc, handles, joined, stdout, to_produce, threads>>

\* one iteration of the loop taking the oldest job of the frontier, not the
\* newest: a queue for the stack
IntoOptimizedChunks_next_loop_takes_oldest ==
    /\ pc = "loop"
    /\ engine = "compact"
    /\ job_queue # <<>>
    /\ LET job == job_queue[1]
           popped == Tail(job_queue)
           next_jobs == OptimizedJob_compute_next_jobs(job)
       IN  IF next_jobs # <<>>
           THEN IF OptimizedJob_is_ready(Head(next_jobs))
                THEN LET extended ==
                            chunk \o [i \in 1..Len(next_jobs) |->
                                         OptimizedJob_permutation(next_jobs[i])]
                     IN  /\ job_queue' = popped
                         /\ IF Chunk_is_full(extended, size)
                            THEN ReturnSome(extended)
                            ELSE /\ chunk' = extended
                                 /\ UNCHANGED <<pc, yielded, returned>>
                ELSE /\ job_queue' = popped \o next_jobs
                     /\ UNCHANGED <<pc, chunk, yielded, returned>>
           ELSE /\ job_queue' = popped
                /\ UNCHANGED <<pc, chunk, yielded, returned>>
    /\ UNCHANGED <<values, size, engine, construction, hash_order, index_to_value,
                   permutation_size, prior>>
    /\ UNCHANGED <<text, parsed, main_pc, handles, joined, stdout, to_produce, threads>>

\* one iteration of `while let Some(job) = self.job_queue.pop()`
IntoOptimizedChunks_next_loop ==
    /\ pc = "loop"
    /\ engine = "compact"
    /\ job_queue # <<>>
    /\ LET job == job_queue[Len(job_queue)]
           popped == SubSeq(job_queue, 1, Len(job_queue) - 1)
           next_jobs == OptimizedJob_compute_next_jobs(job)
       IN  IF next_jobs # <<>>
           THEN IF OptimizedJob_is_ready(Head(next_jobs))
                THEN LET extended ==
                            chunk \o [i \in 1..Len(next_jobs) |->
                                         OptimizedJob_permutation(next_jobs[i])]
                     IN  /\ job_queue' = popped
                         /\ IF Chunk_is_full(extended, size)
                            THEN ReturnSome(extended)
                            ELSE /\ chunk' = extended
                                 /\ UNCHANGED <<pc, yielded, returned>>
                ELSE /\ job_queue' = popped \o next_jobs
                     /\ UNCHANGED <<pc, chunk, yielded, returned>>
           ELSE /\ job_queue' = popped
                /\ UNCHANGED <<pc, chunk, yielded, returned>>
    /\ UNCHANGED <<values, size, engine, construction, hash_order, index_to_value,
                   permutation_size, prior>>
    /\ UNCHANGED <<text, parsed, main_pc, handles, joined, stdout, to_produce, threads>>

\* the loop is left with the queue empty: None for an empty chunk, else Some(chunk)
IntoOptimizedChunks_next_end ==
    /\ pc = "loop"
    /\ engine = "compact"
    /\ job_queue = <<>>
    /\ IF Chunk_is_empty(chunk)
       THEN /\ returned' = "None"
            /\ pc' = "idle"
            /\ UNCHANGED <<chunk, yielded>>
       ELSE ReturnSome(chunk)
    /\ UNCHANGED <<values, size, engine, construction, job_queue, hash_order,
                   index_to_value, permutation_size, prior>>
    /\ UNCHANGED <<text, parsed, main_pc, handles, joined, stdout, to_produce, threads>>

(***************************************************************************)
(* What an engine has produced, as value sequences.                        *)
(***************************************************************************)
\* the permutations of a chunk as value sequences: a compact chunk is decoded
\* through the table as its Display does
ChunkValues(c) ==
    IF engine = "compact"
    THEN [i \in 1..Len(c) |-> Decode(c[i], index_to_value, permutation_size)]
    ELSE c

\* every permutation collected so far, in order of production
Produced == ChunkValues(Flatten(yielded) \o chunk)

\* every permutation of the chunks yielded so far
Collected == ChunkValues(Flatten(yielded))

(***************************************************************************)
(* The second run: once an engine is drained (next() returned None), the   *)
(* other engine may be constructed on the same values with the same size.  *)
(***************************************************************************)
RunOtherEngine ==
    /\ pc = "idle"
    /\ returned = "None"
    /\ prior = NoRun
    /\ prior' = [engine |-> engine, produced |-> Range(Collected), chunks |-> Len(yielded)]
    /\ engine' = "none"
    /\ construction' = "none"
    /\ pc' = "start"
    /\ job_queue' = <<>>
    /\ hash_order' = <<>>
    /\ index_to_value' = <<>>
    /\ permutation_size' = 0
    /\ chunk' = <<>>
    /\ yielded' = <<>>
    /\ returned' = "nothing"
    /\ UNCHANGED <<values, size>>
    /\ UNCHANGED <<text, parsed, main_pc, handles, joined, stdout, to_produce, threads>>

Next ==
    \/ into_chunks
    \/ into_optimized_chunks
    \/ IntoChunks_next
    \/ IntoChunks_next_loop
    \/ IntoChunks_next_end
    \/ IntoOptimizedChunks_next
    \/ IntoOptimizedChunks_next_loop
    \/ IntoOptimizedChunks_next_end
    \/ RunOtherEngine

Spec == Init /\ [][Next]_vars

(***************************************************************************)
(* Parsing on its own: a text is chosen and Permutations::try_from is      *)
(* applied to it; no iterator is constructed.                              *)
(***************************************************************************)
Texts == UNION {[1..n -> Characters] : n \in 0..ParseLen}

ParseInit ==
    /\ text \in Texts
    /\ parsed = NotParsed
    /\ values = <<>>
    /\ size = 0
    /\ engine = "none"
    /\ construction = "none"
    /\ pc = "parse"
    /\ job_queue = <<>>
    /\ hash_order = <<>>
    /\ index_to_value = <<>>
    /\ permutation_size = 0
    /\ chunk = <<>>
    /\ yielded = <<>>
    /\ returned = "nothing"
    /\ prior = NoRun
    /\ main_pc = "none"
    /\ handles = <<>>
    /\ joined = 0
    /\ stdout = EmptyBag
    /\ to_produce = 0
    /\ threads = 0

try_from ==
    /\ pc = "parse"
    /\ pc' = "parsed"
    /\ parsed' = Permutations_try_from(text)
    /\ UNCHANGED <<values, size, engine, construction, job_queue, hash_order,
                   index_to_value, permutation_size, chunk, yielded, returned, prior,
                   text, main_pc, handles, joined, stdout>>
    /\ UNCHANGED <<to_produce, threads>>

ParseNext == try_from

ParseSpec == ParseInit /\ [][ParseNext]_vars

\* a step of the iterator in use: the caller's next pull, or the next step of
\* the running next()
Pull ==
    \/ IntoChunks_next
    \/ IntoChunks_next_loop
    \/ IntoChunks_next_end
    \/ IntoOptimizedChunks_next
    \/ IntoOptimizedChunks_next_loop
    \/ IntoOptimizedChunks_next_end

\* one engine on one input: a constructor, then the pulls; the second run on the
\* same input is left out
EngineNext ==
    \/ into_chunks
    \/ into_optimized_chunks
    \/ Pull

EngineSpec == Init /\ [][EngineNext]_vars

\* the inputs of the fair specification: the long inputs and the short inputs of
\* length <= FairLen
FairInit == Init /\ (values \in LongInputs \/ Len(values) <= FairLen)

\* the caller keeps pulling (map/collect) and a running next() keeps running
FairSpec == FairInit /\ [][Next]_vars /\ WF_vars(Pull)

(***************************************************************************)
(* N! / (c1! * .. * ck!), computed without the factorials (130! is out of  *)
(* range) as the product of binomial coefficients                          *)
(* C(c1, c1) * C(c1 + c2, c2) * .. * C(c1 + .. + ck, ck).                  *)
(***************************************************************************)
RECURSIVE Binomial(_, _)
Binomial(n, k) ==
    IF k = 0 \/ k = n THEN 1 ELSE Binomial(n - 1, k - 1) + Binomial(n - 1, k)

RECURSIVE MultinomialOver(_, _)
MultinomialOver(vs, distinct) ==
    IF distinct = {} THEN 1
    ELSE LET v == CHOOSE x \in distinct : TRUE
             among == Cardinality({i \in DOMAIN vs : vs[i] \in distinct})
         IN  Binomial(among, Occurrences(vs, v)) * MultinomialOver(vs, distinct \ {v})

Multinomial(vs) == MultinomialOver(vs, Range(vs))

(***************************************************************************)
(* main.rs: the chunk size, the choice of the engine, one writer thread    *)
(* per yielded chunk inside crossbeam::scope, the joins, and Done.         *)
(***************************************************************************)
OPTIMAL_THREADS_NUMBER == 256

max(a, b) == IF a >= b THEN a ELSE b

RECURSIVE factorial(_)
factorial(n) == IF n = 0 THEN 1 ELSE factorial(n - 1) * n

\* factorial(n) exceeds a usize of 64 bits from n = 21 on: a build with overflow
\* checks panics there, a build without them goes on with the wrapped product
factorial_overflows(n) == n > 20

\* factorial(n) as a usize without overflow checks, n! modulo 2^64: n! itself up
\* to the lengths whose factorial is computed here, and 0 from n = 66 on, since
\* 2^64 divides 66!; no input has a length in between
factorial_wrapping(n) ==
    CASE n <= 12 -> factorial(n)
      [] n >= 66 -> 0

\* max(16, factorial(permutations.length()) / OPTIMAL_THREADS_NUMBER)
main_chunk_size(n) == max(16, factorial_wrapping(n) \div OPTIMAL_THREADS_NUMBER)

MainValues == 0..(MainLen - 1)

\* the number of chunks main gets for an input, the last one may be short
main_chunks(vs) ==
    (Multinomial(vs) + main_chunk_size(Len(vs)) - 1) \div main_chunk_size(Len(vs))

\* the inputs of main: the non-decreasing vectors of up to MainLen values for
\* which at most MainChunks writers are spawned, and the long inputs around the
\* capacity of the compact engine
MainInputs ==
    {vs \in UNION {[1..n -> MainValues] : n \in 0..MainLen} :
        /\ \A i \in 1..(Len(vs) - 1) : vs[i] <= vs[i + 1]
        /\ main_chunks(vs) <= MainChunks}
    \cup LongInputs

\* main after the input line has been read and parsed into `permutations`
MainInit ==
    /\ values \in MainInputs
    /\ size = 0
    /\ engine = "none"
    /\ construction = "none"
    /\ pc = "start"
    /\ job_queue = <<>>
    /\ hash_order = <<>>
    /\ index_to_value = <<>>
    /\ permutation_size = 0
    /\ chunk = <<>>
    /\ yielded = <<>>
    /\ returned = "nothing"
    /\ prior = NoRun
    /\ text = <<>>
    /\ parsed = NotParsed
    /\ main_pc = "main"
    /\ handles = <<>>
    /\ joined = 0
    /\ stdout = EmptyBag
    /\ to_produce = 0
    /\ threads = 0

\* factorial panics on overflow in a build with overflow checks
main_factorial_overflow ==
    /\ main_pc = "main"
    /\ factorial_overflows(Len(values))
    /\ main_pc' = "panicked"
    /\ UNCHANGED <<values, size, engine, construction, pc, job_queue, hash_order,
                   index_to_value, permutation_size, chunk, yielded, returned, prior,
                   text, parsed, handles, joined, stdout>>
    /\ UNCHANGED <<to_produce, threads>>

\* main, "Using optimized iterator": permutations.into_optimized_chunks(chunk_size)
main_optimized ==
    /\ main_pc = "main"
    /\ can_be_optimized(values)
    /\ size' = main_chunk_size(Len(values))
    /\ Permutations_into_optimized_chunks(main_chunk_size(Len(values)))
    /\ main_pc' = IF construction' = "panic" THEN "panicked" ELSE "collect"
    /\ UNCHANGED <<text, parsed, handles, joined, stdout>>
    /\ UNCHANGED <<to_produce, threads>>

\* main, "Using normal iterator": permutations.into_chunks(chunk_size)
main_normal ==
    /\ main_pc = "main"
    /\ ~can_be_optimized(values)
    /\ size' = main_chunk_size(Len(values))
    /\ Permutations_into_chunks(main_chunk_size(Len(values)))
    /\ main_pc' = IF construction' = "panic" THEN "panicked" ELSE "collect"
    /\ UNCHANGED <<text, parsed, handles, joined, stdout>>
    /\ UNCHANGED <<to_produce, threads>>

\* iterator.map(..).collect(): the next pull of the iterator, or the next step
\* of the running next(), once the chunk yielded before has been handed off
collect_next ==
    /\ main_pc = "collect"
    /\ Len(handles) = Len(yielded)
    /\ returned # "None"
    /\ Pull

\* a spawn that first waits for the writers spawned before
spawn_after_earlier_writes ==
    /\ main_pc = "collect"
    /\ Len(handles) < Len(yielded)
    /\ \A i \in DOMAIN handles : handles[i].state # "running"
    /\ handles' = Append(handles, [chunk |-> yielded[Len(yielded)], state |-> "running"])
    /\ UNCHANGED <<values, size, engine, construction, pc, job_queue, hash_order,
                   index_to_value, permutation_size, chunk, yielded, returned, prior,
                   text, parsed, main_pc, joined, stdout>>
    /\ UNCHANGED <<to_produce, threads>>

\* the closure of map: scope.spawn(move |_| ..) takes the chunk just yielded
spawn ==
    /\ main_pc = "collect"
    /\ Len(handles) < Len(yielded)
    /\ handles' = Append(handles, [chunk |-> yielded[Len(yielded)], state |-> "running"])
    /\ UNCHANGED <<values, size, engine, construction, pc, job_queue, hash_order,
                   index_to_value, permutation_size, chunk, yielded, returned, prior,
                   text, parsed, main_pc, joined, stdout>>
    /\ UNCHANGED <<to_produce, threads>>

\* the iterator has returned None: collect() ends with the vector of handles
collect_end ==
    /\ main_pc = "collect"
    /\ pc = "idle"
    /\ returned = "None"
    /\ main_pc' = "join"
    /\ UNCHANGED <<values, size, engine, construction, pc, job_queue, hash_order,
                   index_to_value, permutation_size, chunk, yielded, returned, prior,
                   text, parsed, handles, joined, stdout>>
    /\ UNCHANGED <<to_produce, threads>>

\* chunk.to_string() in a writer thread
chunk_to_string(c) ==
    IF engine = "compact"
    THEN OptimizedChunk_fmt(c, index_to_value, permutation_size)
    ELSE Chunk_fmt(c)

\* writer thread i: io::stdout().write_all(..) succeeds; the text is written under
\* the lock of the standard output, in one piece
write_all(i) ==
    /\ handles[i].state = "running"
    /\ stdout' = stdout (+) SetToBag({chunk_to_string(handles[i].chunk)})
    /\ handles' = [handles EXCEPT ![i].state = "finished"]
    /\ UNCHANGED <<values, size, engine, construction, pc, job_queue, hash_order,
                   index_to_value, permutation_size, chunk, yielded, returned, prior,
                   text, parsed, main_pc, joined>>
    /\ UNCHANGED <<to_produce, threads>>

\* writer thread i: write_all fails and expect("Error writing data") panics
write_all_fails(i) ==
    /\ handles[i].state = "running"
    /\ handles' = [handles EXCEPT ![i].state = "panicked"]
    /\ UNCHANGED <<values, size, engine, construction, pc, job_queue, hash_order,
                   index_to_value, permutation_size, chunk, yielded, returned, prior,
                   text, parsed, main_pc, joined, stdout>>
    /\ UNCHANGED <<to_produce, threads>>

\* a join that returns while the writer is still running
join_without_waiting ==
    /\ main_pc = "join"
    /\ joined < Len(handles)
    /\ IF handles[joined + 1].state # "panicked"
       THEN /\ joined' = joined + 1
            /\ UNCHANGED main_pc
       ELSE /\ main_pc' = "panicked"
            /\ UNCHANGED joined
    /\ UNCHANGED <<values, size, engine, construction, pc, job_queue, hash_order,
                   index_to_value, permutation_size, chunk, yielded, returned, prior,
                   text, parsed, handles, stdout>>
    /\ UNCHANGED <<to_produce, threads>>

\* handles.into_iter().for_each(|h| h.join().expect(..)): the next handle is
\* joined once its writer has ended; a writer that panicked makes main panic
join ==
    /\ main_pc = "join"
    /\ joined < Len(handles)
    /\ handles[joined + 1].state # "running"
    /\ IF handles[joined + 1].state = "finished"
       THEN /\ joined' = joined + 1
            /\ UNCHANGED main_pc
       ELSE /\ main_pc' = "panicked"
            /\ UNCHANGED joined
    /\ UNCHANGED <<values, size, engine, construction, pc, job_queue, hash_order,
                   index_to_value, permutation_size, chunk, yielded, returned, prior,
                   text, parsed, handles, stdout>>
    /\ UNCHANGED <<to_produce, threads>>

\* every handle is joined, the scope is left: eprintln!("Done")
eprintln_Done ==
    /\ main_pc = "join"
    /\ joined = Len(handles)
    /\ main_pc' = "done"
    /\ UNCHANGED <<values, size, engine, construction, pc, job_queue, hash_order,
                   index_to_value, permutation_size, chunk, yielded, returned, prior,
                   text, parsed, handles, joined, stdout>>
    /\ UNCHANGED <<to_produce, threads>>

\* the steps of the generating thread between two hand-offs
Generation == collect_next \/ spawn \/ collect_end

MainNext ==
    \/ main_factorial_overflow
    \/ main_optimized
    \/ main_normal
    \/ collect_next
    \/ spawn
    \/ collect_end
    \/ \E i \in DOMAIN handles : write_all(i)
    \/ \E i \in DOMAIN handles : write_all_fails(i)
    \/ join
    \/ eprintln_Done

MainSpec == MainInit /\ [][MainNext]_vars

(***************************************************************************)
(* main.rs, the count of the writer threads.  The iterator is followed by  *)
(* the number of permutations it has still to yield: N! / (c1! .. ck!) in  *)
(* all for N >= 1 and none for N = 0, every chunk but the last full.  The  *)
(* writers' own steps are left out; only the spawns are counted.           *)
(***************************************************************************)
min(a, b) == IF a <= b THEN a ELSE b

\* the inputs of the thread count: 0..BudgetLen different values
BudgetInputs == {[i \in 1..n |-> i] : n \in 0..BudgetLen}

BudgetInit ==
    /\ values \in BudgetInputs
    /\ size = 0
    /\ engine = "none"
    /\ construction = "none"
    /\ pc = "start"
    /\ job_queue = <<>>
    /\ hash_order = <<>>
    /\ index_to_value = <<>>
    /\ permutation_size = 0
    /\ chunk = <<>>
    /\ yielded = <<>>
    /\ returned = "nothing"
    /\ prior = NoRun
    /\ text = <<>>
    /\ parsed = NotParsed
    /\ main_pc = "main"
    /\ handles = <<>>
    /\ joined = 0
    /\ stdout = EmptyBag
    /\ to_produce = 0
    /\ threads = 0

\* main up to the call of generate_optimized_permutations: the chunk size is
\* chosen and the iterator is constructed
main_chunk_size_chosen ==
    /\ main_pc = "main"
    /\ can_be_optimized(values)
    /\ ~factorial_overflows(Len(values))
    /\ size' = main_chunk_size(Len(values))
    /\ to_produce' = IF Len(values) = 0 THEN 0 ELSE Multinomial(values)
    /\ main_pc' = "collect"
    /\ UNCHANGED <<values, engine, construction, pc, job_queue, hash_order,
                   index_to_value, permutation_size, chunk, yielded, returned, prior,
                   text, parsed, handles, joined, stdout, threads>>

\* iterator.map(..): next() returns Some(chunk), a full chunk or the last one,
\* and the closure spawns the chunk's writer
next_chunk_spawned ==
    /\ main_pc = "collect"
    /\ to_produce > 0
    /\ to_produce' = to_produce - min(size, to_produce)
    /\ threads' = threads + 1
    /\ UNCHANGED <<values, size, engine, construction, pc, job_queue, hash_order,
                   index_to_value, permutation_size, chunk, yielded, returned, prior,
                   text, parsed, main_pc, handles, joined, stdout>>

\* next() returns None: collect() has the handle of every thread
all_chunks_spawned ==
    /\ main_pc = "collect"
    /\ to_produce = 0
    /\ main_pc' = "join"
    /\ UNCHANGED <<values, size, engine, construction, pc, job_queue, hash_order,
                   index_to_value, permutation_size, chunk, yielded, returned, prior,
                   text, parsed, handles, joined, stdout, to_produce, threads>>

BudgetNext ==
    \/ main_chunk_size_chosen
    \/ next_chunk_spawned
    \/ all_chunks_spawned

BudgetSpec == BudgetInit /\ [][BudgetNext]_vars

TypeOK ==
    /\ engine \in {"none", "general", "compact"}
    /\ construction \in {"none", "Ok", "panic"}
    /\ pc \in {"start", "idle", "loop", "panicked"}
    /\ returned \in {"nothing", "Some", "None"}
    /\ size \in 0..MaxSize
    /\ Len(job_queue) >= 0

(***************************************************************************)
(* The reference: all distinct arrangements of the input multiset, by      *)
(* enumeration of every sequence of the right length over the input's      *)
(* values (permutations.rs, generate_correct_permutations).                *)
(***************************************************************************)
Arrangements(vs) ==
    {s \in [1..Len(vs) -> Range(vs)] :
        \A v \in Range(vs) : Occurrences(s, v) = Occurrences(vs, v)}

\* the engine has been drained: a call of next() has returned None
Drained == returned = "None"

(***************************************************************************)
(* Properties.                                                             *)
(***************************************************************************)

\* C1 (completeness): for an input of N >= 1 values and any chunk size >= 1, the
\* set of permutations collected from all chunks of a drained engine (general or
\* compact) is the set of all distinct arrangements of the input multiset,
\* whatever the chunk size.
C1_Completeness ==
    (Drained /\ Len(values) >= 1) => Range(Collected) = Arrangements(values)

\* C1 witness: a compact engine drained on an input with a repeated value and
\* three arrangements, collected in chunks of two.
C1_Witness ==
    /\ Drained
    /\ engine = "compact"
    /\ size = 2
    /\ Len(values) = 3
    /\ Cardinality(Range(values)) = 2
    /\ Len(yielded) = 2

\* C2 (no duplicates): over all chunks yielded by one engine, and the chunk under
\* construction, no permutation occurs twice as a value sequence, also when the
\* input repeats values.
C2_NoDuplicates ==
    LET produced == Produced
    IN  \A i, j \in DOMAIN produced : i # j => produced[i] # produced[j]

\* C2 witness: a general engine on an input with a repeated value that has
\* produced three permutations over at least two chunks.
C2_Witness ==
    /\ engine = "general"
    /\ Len(values) = 3
    /\ Cardinality(Range(values)) = 2
    /\ Len(Produced) = 3
    /\ Len(yielded) >= 2

\* C3 (chunking fidelity): with chunk size s >= 1 every yielded chunk holds
\* between 1 and s permutations, and every yielded chunk but the last holds
\* exactly s.
C3_ChunkingFidelity ==
    size >= 1 =>
        \A i \in DOMAIN yielded :
            /\ Len(yielded[i]) >= 1
            /\ Len(yielded[i]) <= size
            /\ i < Len(yielded) => Len(yielded[i]) = size

\* C3 witness: a drained engine with chunk size 2 whose last chunk is short.
C3_Witness ==
    /\ Drained
    /\ size = 2
    /\ Len(yielded) = 2
    /\ Len(yielded[1]) = 2
    /\ Len(yielded[2]) = 1

\* C4 (engine equivalence): when both engines have been drained on the same
\* input (which needs N <= 128), the set of value sequences of the general engine
\* equals the set of the compact engine decoded through the translation table.
C4_EngineEquivalence ==
    (Drained /\ prior # NoRun) => Range(Collected) = prior.produced

\* C4 witness: the compact engine drained after the general engine on an input
\* of three distinct values.
C4_Witness ==
    /\ Drained
    /\ engine = "compact"
    /\ prior.engine = "general"
    /\ Cardinality(prior.produced) = 6

\* C5 as stated (empty input): for N = 0 a drained engine has yielded exactly one
\* chunk holding exactly one permutation, the empty sequence.
C5_OneEmptyPermutation ==
    (Drained /\ Len(values) = 0) => (Len(yielded) = 1 /\ Collected = << <<>> >>)

\* C5 amended: for N = 0 neither engine ever yields a chunk or collects a
\* permutation, not even the empty sequence: no call of next() returns Some.
C5_EmptyInputYieldsNothing ==
    Len(values) = 0 => (yielded = <<>> /\ chunk = <<>> /\ returned # "Some")

\* C5 witness: a general engine drained on the empty input.
C5_Witness ==
    /\ Len(values) = 0
    /\ engine = "general"
    /\ Drained

\* C6 (empty input, as the test has it): for N = 0 every finished call of next(),
\* the first included, has returned None, on the general and the compact iterator.
C6_EmptyInputReturnsNone ==
    (Len(values) = 0 /\ returned # "nothing") => (returned = "None" /\ Len(yielded) = 0)

\* C6 witness: both iterators drained on the empty input, the compact one last.
C6_Witness ==
    /\ Len(values) = 0
    /\ Drained
    /\ engine = "compact"
    /\ prior.engine = "general"
    /\ prior.chunks = 0

\* C7 (capacity boundary): can_be_optimized is true exactly for inputs of length
\* <= 128; with chunk size >= 1 into_optimized_chunks succeeds exactly on those
\* and into_chunks succeeds on every input.
C7_CapacityBoundary ==
    /\ can_be_optimized(values) <=> Len(values) <= 128
    /\ (construction # "none" /\ size >= 1) =>
          (construction = "Ok" <=> (engine = "general" \/ Len(values) <= 128))

\* C7 witness: on an input of 129 values the general engine has run to its end
\* and the compact engine has then been refused.
C7_Witness ==
    /\ Len(values) = 129
    /\ size >= 1
    /\ prior.engine = "general"
    /\ prior.chunks = 1
    /\ engine = "compact"
    /\ construction = "panic"

\* C8 as stated: a compact engine requested for more than 128 values fails
\* without a crash of the program.
C8_NeverACrash ==
    (engine = "compact" /\ Len(values) > 128 /\ size >= 1 /\ construction # "none")
        => pc # "panicked"

\* C8 amended: a compact engine requested for more than 128 values panics in
\* into_optimized_chunks: no iterator is built, no job is queued and nothing is
\* yielded; can_be_optimized is false on such an input, which is how a caller
\* avoids the panic.
C8_CapacityPanics ==
    (engine = "compact" /\ Len(values) > 128 /\ construction # "none") =>
        /\ construction = "panic"
        /\ pc = "panicked"
        /\ job_queue = <<>>
        /\ yielded = <<>>
        /\ ~can_be_optimized(values)

\* C8 witness: into_optimized_chunks(1) has panicked on 130 values.
C8_Witness ==
    /\ engine = "compact"
    /\ Len(values) = 130
    /\ size = 1
    /\ pc = "panicked"

\* C9 (zero chunk size): with chunk size 0 either constructor fails at once: no
\* iterator exists, no job is queued or expanded, next() is never entered and no
\* chunk is built or yielded.
C9_ZeroChunkSize ==
    size = 0 =>
        /\ pc \in {"start", "panicked"}
        /\ construction # "Ok"
        /\ job_queue = <<>>
        /\ chunk = <<>>
        /\ yielded = <<>>

\* C9 witness: into_chunks(0) has panicked on an input of three values.
C9_Witness ==
    /\ size = 0
    /\ engine = "general"
    /\ Len(values) = 3
    /\ pc = "panicked"

\* C10 (termination): every call of next() on a constructed engine returns, and
\* after finitely many calls next() returns None.
C10_Termination ==
    /\ (pc = "loop") ~> (pc = "idle")
    /\ (construction = "Ok") ~> Drained

\* C10 witness: a general engine drained after two calls that each yielded a
\* chunk of one permutation.
C10_Witness ==
    /\ Drained
    /\ engine = "general"
    /\ size = 1
    /\ Len(yielded) = 2

\* the sequence has ended: next() has returned None, or its last chunk was short
Terminal ==
    \/ returned = "None"
    \/ returned = "Some" /\ Len(yielded[Len(yielded)]) < size

\* C11 (exhaustion is terminal): once next() has returned None, or a chunk of
\* fewer than chunk_size permutations, the job queue is and stays empty, no later
\* call of next() on that engine yields a chunk (each returns None), and no
\* yielded chunk is ever empty.
C11_ExhaustionIsTerminal ==
    [][(Terminal /\ prior' = prior) =>
          /\ job_queue = <<>>
          /\ job_queue' = <<>>
          /\ yielded' = yielded
          /\ returned' \in {returned, "None"}
          /\ \A i \in DOMAIN yielded' : yielded'[i] # <<>>]_vars

\* C11 witness: after one short chunk and a None, next() is running once more.
C11_Witness ==
    /\ Drained
    /\ size = 3
    /\ Len(yielded) = 1
    /\ Len(yielded[1]) < 3
    /\ pc = "loop"

\* C12 (cardinality): for an input of N >= 1 values whose distinct values occur
\* c1..ck times, a drained engine (general or compact) has yielded
\* N! / (c1! * .. * ck!) permutations over all its chunks, whatever the chunk size.
C12_Cardinality ==
    (Drained /\ Len(values) >= 1) => Len(Collected) = Multinomial(values)

\* C12 witness: a general engine drained on a three-element input with one
\* repeated value, whose 3!/2! = 3 permutations filled one chunk of size 3.
C12_Witness ==
    /\ Drained
    /\ engine = "general"
    /\ Len(values) = 3
    /\ Cardinality(Range(values)) = 2
    /\ size = 3
    /\ Len(yielded) = 1
    /\ Len(Collected) = 3

\* C13 (compact rendering): the text of a yielded compact chunk consists, for
\* each stored id array in insertion order, of its first N ids translated through
\* the table, joined by "," and ended by a line break, and nothing else (no slot
\* at a position >= N is written); it is the text the general chunk renders for
\* the same value sequences.
C13_CompactRendering ==
    (engine = "compact" /\ returned = "Some") =>
        LET c == yielded[Len(yielded)]
            n == permutation_size
            rendering == OptimizedChunk_fmt(c, index_to_value, n)
        IN  /\ Len(rendering) = 2 * n * Len(c)
            /\ \A p \in 1..Len(c) : \A i \in 1..n :
                  /\ rendering[2 * n * (p - 1) + 2 * i - 1] = to_string(index_to_value[c[p][i - 1]])
                  /\ rendering[2 * n * (p - 1) + 2 * i] = (IF i = n THEN "\n" ELSE ",")
            /\ rendering = Chunk_fmt(ChunkValues(c))

\* C13 witness: a compact chunk of two permutations of three values has been
\* yielded, on an input whose first value is not the smallest.
C13_Witness ==
    /\ engine = "compact"
    /\ returned = "Some"
    /\ Len(values) = 3
    /\ values[1] > values[2]
    /\ Len(yielded[Len(yielded)]) = 2

\* the positions of the tokens of the text that are not valid numbers once trimmed
InvalidTokens(tokens) == {i \in DOMAIN tokens : ~parse_f64_is_ok(trim(tokens[i]))}

\* C14 (input parsing): the tokens are the pieces of the text between its commas;
\* try_from returns an error whenever at least one token, trimmed, is not a valid
\* number (an empty token included), and the error names the first such token in
\* input order; otherwise it returns the trimmed tokens in input order, one value
\* per token.
C14_InputParsing ==
    pc = "parsed" =>
        LET tokens == split(text)
            invalid == InvalidTokens(tokens)
        IN  /\ Len(tokens) = 1 + Cardinality({i \in DOMAIN text : text[i] = ","})
            /\ \A i \in DOMAIN tokens : "," \notin Range(tokens[i])
            /\ (\E i \in DOMAIN tokens : trim(tokens[i]) = <<>>) => ~parsed.ok
            /\ IF invalid # {}
               THEN LET first == CHOOSE i \in invalid : \A j \in invalid : i <= j
                    IN  /\ ~parsed.ok
                        /\ parsed.message = not_a_valid_number(tokens[first])
               ELSE /\ parsed.ok
                    /\ Len(parsed.values) = Len(tokens)
                    /\ \A i \in DOMAIN tokens :
                          /\ parsed.values[i] = trim(tokens[i])
                          /\ parsed.values[i] # <<>>
                          /\ parsed.values[i][1] \notin WhiteSpace
                          /\ parsed.values[i][Len(parsed.values[i])] \notin WhiteSpace

\* C14 witness: a text with a trailing comma after a token that is no number has
\* been refused with the error naming the first invalid token.
C14_Witness ==
    /\ pc = "parsed"
    /\ text = <<"c", ",", "1", ",">>
    /\ parsed = [ok |-> FALSE, values |-> <<>>, message |-> not_a_valid_number(<<"c">>)]

\* the writers that have written their chunk
Finished == {i \in DOMAIN handles : handles[i].state = "finished"}

\* C15 (writers): every yielded chunk is handed to exactly one writer thread
\* (the i-th handle holds the i-th chunk, and there are as many handles as chunks
\* when collect has ended); the standard output holds the text of a chunk once if
\* its writer has finished and not at all otherwise, and nothing else; Done is
\* reported only after every writer has finished, with every chunk written once.
C15_OneWriterPerChunk ==
    /\ Len(handles) <= Len(yielded)
    /\ Len(yielded) - Len(handles) <= 1
    /\ main_pc \in {"join", "done"} => Len(handles) = Len(yielded) /\ Drained
    /\ \A i \in DOMAIN handles :
          /\ handles[i].chunk = yielded[i]
          /\ CopiesIn(chunk_to_string(yielded[i]), stdout) =
                (IF handles[i].state = "finished" THEN 1 ELSE 0)
    /\ BagCardinality(stdout) = Cardinality(Finished)
    /\ main_pc = "done" =>
          /\ joined = Len(handles)
          /\ Finished = DOMAIN yielded
          /\ \A i \in DOMAIN yielded : CopiesIn(chunk_to_string(yielded[i]), stdout) = 1

\* C15 witness: Done is reported after two chunks were yielded and written.
C15_Witness ==
    /\ main_pc = "done"
    /\ Len(yielded) = 2
    /\ BagCardinality(stdout) = 2

\* C16 (no waiting on writes): while main collects, a step of the generating
\* thread is enabled whatever the writers spawned so far are doing.
C16_GenerationNeverBlocked ==
    main_pc = "collect" => ENABLED Generation

\* C16 witness: the second chunk has been produced while the write of the first
\* is still pending.
C16_Witness ==
    /\ main_pc = "collect"
    /\ Len(yielded) = 2
    /\ Len(handles) >= 1
    /\ handles[1].state = "running"

\* the jobs created by expanding the job on top of the queue, the one the next
\* loop iteration pops
ExpandedJobs ==
    IF job_queue = <<>> THEN <<>>
    ELSE IF engine = "general"
         THEN Job_compute_next_jobs(job_queue[Len(job_queue)], hash_order)
         ELSE OptimizedJob_compute_next_jobs(job_queue[Len(job_queue)])

\* the jobs on the frontier and the jobs the next expansion creates
Jobs == Range(job_queue) \cup Range(ExpandedJobs)

\* how often value v stands in the partial permutation of a job, and how many
\* of it the job still has to place
Placed(job, v) ==
    IF engine = "general"
    THEN Occurrences(job.permutation, v)
    ELSE Cardinality({p \in 0..(job.permutation_length - 1) :
                         index_to_value[job.compressed_permutation[p]] = v})

Remaining(job, v) ==
    IF engine = "general"
    THEN IF v \in DOMAIN job.values_with_positive_frequency
         THEN job.values_with_positive_frequency[v]
         ELSE 0
    ELSE LET ids == {id \in DOMAIN index_to_value : index_to_value[id] = v}
         IN  IF ids = {} THEN 0 ELSE job.compressed_values[CHOOSE id \in ids : TRUE]

\* C17 (multiset conservation): for every job on the frontier, the root included,
\* and every job created by an expansion, the values of the partial permutation
\* together with the remaining counts are the input multiset: no value outside
\* the input, and for every input value placed + remaining = its occurrences.
C17_MultisetConservation ==
    engine # "none" =>
        \A job \in Jobs :
            /\ \A v \in Range(values) :
                  Placed(job, v) + Remaining(job, v) = Occurrences(values, v)
            /\ IF engine = "general"
               THEN /\ Range(job.permutation) \subseteq Range(values)
                    /\ DOMAIN job.values_with_positive_frequency \subseteq Range(values)
               ELSE /\ \A p \in 0..(job.permutation_length - 1) :
                          job.compressed_permutation[p] \in DOMAIN index_to_value
                    /\ \A id \in FixedIndex \ DOMAIN index_to_value :
                          job.compressed_values[id] = 0
                    /\ \A id \in DOMAIN index_to_value : \A other \in DOMAIN index_to_value :
                          index_to_value[id] = index_to_value[other] => id = other

\* C17 witness: a job with two values placed and one still to place is on the
\* frontier of the compact engine, on an input with a repeated value.
C17_Witness ==
    /\ engine = "compact"
    /\ Len(values) = 3
    /\ Cardinality(Range(values)) = 2
    /\ \E i \in DOMAIN job_queue : job_queue[i].permutation_length = 2

\* C18 (readiness): a job of the general engine has a partial permutation of
\* length N exactly when its frequency map is empty; a job of the compact engine
\* has all counts zero exactly when its filled length is N; so on every job each
\* engine's readiness test says whether all N values are placed.
C18_Readiness ==
    /\ engine = "general" =>
          \A job \in Jobs :
              /\ (Len(job.permutation) = Len(values))
                    <=> (DOMAIN job.values_with_positive_frequency = {})
              /\ Job_is_ready(job) <=> (Len(job.permutation) = Len(values))
    /\ engine = "compact" =>
          \A job \in Jobs :
              /\ (\A id \in FixedIndex : job.compressed_values[id] = 0)
                    <=> (job.permutation_length = Len(values))
              /\ OptimizedJob_is_ready(job) <=> (job.permutation_length = Len(values))

\* C18 witness: the compact engine is about to create a ready job, the last
\* value of three being placed.
C18_Witness ==
    /\ engine = "compact"
    /\ Len(values) = 3
    /\ pc = "loop"
    /\ ExpandedJobs # <<>>
    /\ OptimizedJob_is_ready(ExpandedJobs[1])

\* C19 (positive counts): every count in a frequency map of the general engine
\* is >= 1, and the expansion of a job creates one child per value the job still
\* has to place, each such value appended by exactly one child.
C19_PositiveCounts ==
    engine = "general" =>
        /\ \A job \in Jobs : \A v \in DOMAIN job.values_with_positive_frequency :
              job.values_with_positive_frequency[v] >= 1
        /\ job_queue # <<>> =>
              LET job == job_queue[Len(job_queue)]
                  next_jobs == ExpandedJobs
                  candidates == {v \in Range(values) :
                                    Occurrences(values, v) - Occurrences(job.permutation, v) > 0}
              IN  /\ Len(next_jobs) = Cardinality(candidates)
                  /\ \A v \in candidates :
                        \E i \in DOMAIN next_jobs :
                            next_jobs[i].permutation = Append(job.permutation, v)

\* C19 witness: the general engine is about to expand a job that has placed one
\* of two equal values and still has two different values to place.
C19_Witness ==
    /\ engine = "general"
    /\ pc = "loop"
    /\ job_queue # <<>>
    /\ Len(values) = 3
    /\ Len(job_queue[Len(job_queue)].permutation) = 1
    /\ Len(ExpandedJobs) = 2
    /\ Cardinality(Range(values)) = 2

\* whether a job is ready, by the test of the engine in use
IsReady(job) == IF engine = "general" THEN Job_is_ready(job) ELSE OptimizedJob_is_ready(job)

\* C20 (siblings): the children of a popped job are all ready or all not ready;
\* ready children are exactly one; the chunk being built and every yielded chunk
\* hold at most chunk_size permutations.
C20_Siblings ==
    construction = "Ok" =>
        LET next_jobs == ExpandedJobs
        IN  /\ \A i \in DOMAIN next_jobs : IsReady(next_jobs[i]) = IsReady(next_jobs[1])
            /\ (next_jobs # <<>> /\ IsReady(next_jobs[1])) => Len(next_jobs) = 1
            /\ Len(chunk) <= size
            /\ \A i \in DOMAIN yielded : Len(yielded[i]) <= size

\* C20 witness: the general engine, with one permutation in a chunk of size two,
\* is about to append the only ready child of the popped job.
C20_Witness ==
    /\ engine = "general"
    /\ pc = "loop"
    /\ size = 2
    /\ Len(chunk) = 1
    /\ ExpandedJobs # <<>>
    /\ IsReady(ExpandedJobs[1])
    /\ Len(values) = 3

\* C21 as stated (job lifecycle): when a pull has returned, no job is left on the
\* frontier for a later pull.
C21_JobsWithinOnePull ==
    (pc = "idle" /\ returned # "nothing") => job_queue = <<>>

\* C21 amended: the frontier belongs to the iterator and outlives a pull.  A pull
\* starts from the jobs the pull before left (entering next() leaves the frontier
\* as it is), and a pull that returns with jobs left on the frontier returns
\* Some(chunk) with a full chunk; so the frontier is empty on return whenever the
\* pull returns None or a short chunk.
C21_JobsOutliveAPull ==
    [][/\ (pc = "idle" /\ pc' = "loop") => job_queue' = job_queue
       /\ (pc = "loop" /\ pc' = "idle" /\ job_queue' # <<>>) =>
             /\ returned' = "Some"
             /\ Len(yielded') = Len(yielded) + 1
             /\ Len(yielded'[Len(yielded')]) = size]_vars

\* C21 witness: the second pull of the compact engine has started from the jobs
\* the first pull left on the frontier.
C21_Witness ==
    /\ engine = "compact"
    /\ pc = "loop"
    /\ Len(yielded) = 1
    /\ chunk = <<>>
    /\ Len(job_queue) >= 2

\* C22 as stated (breadth-first search): in the compact engine the job the next
\* loop iteration pops and expands is one of the shortest on the frontier: no job
\* of depth d+1 is expanded while a job of depth d is still on the frontier.
C22_BreadthFirst ==
    (engine = "compact" /\ pc = "loop" /\ job_queue # <<>>) =>
        \A i \in DOMAIN job_queue :
            job_queue[Len(job_queue)].permutation_length <= job_queue[i].permutation_length

\* the first n ids of compact permutation a come before those of b in
\* lexicographic order
LexLess(a, b, n) ==
    \E k \in 0..(n - 1) : a[k] < b[k] /\ \A j \in 0..(k - 1) : a[j] = b[j]

\* the input as ids: every value replaced by the rank of its first occurrence
\* among the first occurrences of the distinct values
FirstOccurrenceIds(vs) ==
    [i \in DOMAIN vs |->
        Cardinality({j \in 1..(FirstOccurrence(vs, vs[i]) - 1) :
                        \A h \in 1..(j - 1) : vs[h] # vs[j]})]

\* C23 (compact production order): the table gives the ids 0, 1, 2, .. to the
\* distinct values in order of first occurrence; the children of a job append
\* ids in increasing order; the permutations produced so far, over all chunks in
\* yield order and the chunk being built, are strictly decreasing in the
\* lexicographic order of their id sequences; and once drained (N >= 1) they are
\* all arrangements of the input's ids, so the whole sequence is the decreasing
\* enumeration of those arrangements, the same for every chunk size.
C23_CompactProductionOrder ==
    engine = "compact" =>
        LET n == permutation_size
            produced == Flatten(yielded) \o chunk
            next_jobs == ExpandedJobs
        IN  /\ \A id \in DOMAIN index_to_value :
                  /\ index_to_value[id] \in Range(values)
                  /\ \A other \in DOMAIN index_to_value :
                        id < other =>
                            FirstOccurrence(values, index_to_value[id])
                                < FirstOccurrence(values, index_to_value[other])
            /\ \A i \in 1..(Len(next_jobs) - 1) :
                  next_jobs[i].compressed_permutation[next_jobs[i].permutation_length - 1]
                      < next_jobs[i + 1].compressed_permutation[
                            next_jobs[i + 1].permutation_length - 1]
            /\ \A i \in 1..(Len(produced) - 1) : LexLess(produced[i + 1], produced[i], n)
            /\ (Drained /\ n >= 1) =>
                  {[i \in 1..n |-> produced[p][i - 1]] : p \in DOMAIN produced}
                      = Arrangements(FirstOccurrenceIds(values))

\* C23 witness: the compact engine is drained on three distinct values given in
\* an order that is not the order of the values, with chunks of two.
C23_Witness ==
    /\ engine = "compact"
    /\ Drained
    /\ size = 2
    /\ Len(values) = 3
    /\ Cardinality(Range(values)) = 3
    /\ values[1] > values[2]
    /\ Len(yielded) = 3

\* C24 (bounded frontier): for an input of N >= 1 values, k of them distinct, the
\* job queue of either engine never holds more than 1 + (N - 1) * (k - 1) jobs.
C24_BoundedFrontier ==
    (engine # "none" /\ Len(values) >= 1) =>
        Len(job_queue) <= 1 + (Len(values) - 1) * (Cardinality(Range(values)) - 1)

\* C24 witness: on three distinct values the frontier of the compact engine
\* holds four jobs, two of depth 1 and two of depth 2, while six permutations
\* are to be produced.
C24_Witness ==
    /\ engine = "compact"
    /\ Len(values) = 3
    /\ Cardinality(Range(values)) = 3
    /\ Len(job_queue) = 4

\* C25 (compact array safety): whenever the compact engine creates a child, the
\* count it decrements is > 0 before the decrement, the position it writes,
\* the parent's filled length, is < N <= 128, and in every job every id stored
\* at a position below the filled length is a key of the translation table.
C25_CompactArraySafety ==
    (engine = "compact" /\ construction = "Ok") =>
        /\ permutation_size = Len(values)
        /\ permutation_size <= PERMUTATION_FIXED_LENGTH
        /\ job_queue # <<>> =>
              LET parent == job_queue[Len(job_queue)]
                  next_jobs == ExpandedJobs
              IN  \A i \in DOMAIN next_jobs :
                      LET id == next_jobs[i].compressed_permutation[parent.permutation_length]
                      IN  /\ parent.permutation_length < permutation_size
                          /\ parent.permutation_length \in FixedIndex
                          /\ id \in FixedIndex
                          /\ parent.compressed_values[id] > 0
                          /\ next_jobs[i].compressed_values[id]
                                = parent.compressed_values[id] - 1
                          /\ next_jobs[i].permutation_length = parent.permutation_length + 1
        /\ \A job \in Jobs :
              /\ job.permutation_length <= permutation_size
              /\ \A p \in 0..(job.permutation_length - 1) :
                    job.compressed_permutation[p] \in DOMAIN index_to_value
              /\ \A id \in FixedIndex : job.compressed_values[id] >= 0

\* C25 witness: on an input of 128 values the compact engine is about to create
\* the child that writes the last slot of the array, position 127.
C25_Witness ==
    /\ engine = "compact"
    /\ pc = "loop"
    /\ Len(values) = PERMUTATION_FIXED_LENGTH
    /\ job_queue # <<>>
    /\ job_queue[Len(job_queue)].permutation_length = PERMUTATION_FIXED_LENGTH - 1
    /\ Len(ExpandedJobs) = 1

\* C26 as stated (thread budget): with the chunk size main chooses, the number
\* of writer threads spawned never exceeds OPTIMAL_THREADS_NUMBER.
C26_ThreadBudget == threads <= OPTIMAL_THREADS_NUMBER

====
